---- MODULE Spec2Model ----
(***************************************************************************)
(* Model of txdb.cpp: the UTXO store (CCoinsViewDB and its cursor), the    *)
(* block index store (CBlockTreeDB) and the balance index                  *)
(* (CBalanceViewDB), each over an ordered key-value engine.                *)
(*                                                                         *)
(* A key is a sequence: <<tag>> for a family with no suffix, <<tag, s>>    *)
(* for a tag followed by a hash or an integer.  Keys sort by tag, then a   *)
(* bare tag before any suffixed key, then by suffix (byte-lexicographic    *)
(* order of the serialized key).  A store is a function whose DOMAIN is    *)
(* the set of keys present.                                                *)
(***************************************************************************)
EXTENDS Integers, Sequences, FiniteSets, TLC

\* ---------------------------------------------------------------- bounds
MaxTx == 2      \* transaction ids are 1..MaxTx
NOut == 2       \* a coins record has at most NOut unspent outputs
MaxHash == 2    \* block hashes are 0..MaxHash, 0 the null hash
MaxBlocks == 3  \* persisted block-index nodes have the hashes 1..MaxBlocks
MaxBlkHeight == 1   \* a persisted nHeight is in 0..MaxBlkHeight
MaxHeight == 1  \* balances are updated and queried at the heights 0..MaxHeight
MaxValue == 1   \* an output is worth at most MaxValue
MaxCalls == 2   \* at most MaxCalls UpdateBalance calls
MaxName == 2    \* named flags have the names 1..MaxName
MaxFile == 1    \* block files have the indexes 0..MaxFile

\* ------------------------------------------------------ record-type tags
DB_COINS == 99
DB_BLOCK_FILES == 102
DB_TXINDEX == 116
DB_BLOCK_INDEX == 98
DB_BEST_BLOCK == 66
DB_FLAG == 70
DB_REINDEX_FLAG == 82
DB_LAST_BLOCK == 108

VARIABLES
    coinsDb,    \* CCoinsViewDB::db, the chainstate store
    mapCoins,   \* the caller's CCoinsMap handed to BatchWrite
    coinsRet,   \* what the last BatchWrite returned ("none" before the first)
    cursor,     \* the CCoinsViewDBCursor returned by Cursor(), if any
    scanned,    \* what the cursor's consumer has read so far
    hFlush,     \* history: the last BatchWrite call and what its diff held
    hBest,      \* history: hash of the last committed flush with a non-null hash
    blockDb,        \* CBlockTreeDB, the block index store
    mapBlockIndex,  \* the caller's index collection that insertBlockIndex fills
    loadRet,        \* what LoadBlockIndexGuts returned ("none" before the call)
    treeCall,       \* history: the last CBlockTreeDB write or read call and its result
    hFlags,         \* history: per flag name, the value of the last write that succeeded
    balDb,          \* CBalanceViewDB::pdb: key string -> value string
    cacheBalance,   \* CBalanceViewDB::cacheBalance
    balCall,        \* the balance-index call that has just returned, if any
    nCalls,         \* number of UpdateBalance calls so far
    curHeight,      \* height of the block being connected
    hTotal,         \* history: per address, credits minus debits so far
    hAllOk          \* history: no UpdateBalance call has failed so far

coinsVars == <<coinsDb, mapCoins, coinsRet, cursor, scanned, hFlush, hBest>>

blockVars == <<blockDb, mapBlockIndex, loadRet, treeCall, hFlags>>

balVars == <<balDb, cacheBalance, balCall, nCalls, curHeight, hTotal, hAllOk>>

vars == <<coinsVars, blockVars, balVars>>

\* ------------------------------------------------------------ the engine
NullHash == 0

EmptyMap == [k \in {} |-> 0]

\* Byte order of two serialized keys.
KeyLess(a, b) ==
    \/ a[1] < b[1]
    \/ /\ a[1] = b[1]
       /\ \/ Len(a) < Len(b)
          \/ Len(a) = 2 /\ Len(b) = 2 /\ a[2] < b[2]

DbRead(store, key) ==
    IF key \in DOMAIN store
    THEN [found |-> TRUE, value |-> store[key]]
    ELSE [found |-> FALSE, value |-> 0]

DbExists(store, key) == key \in DOMAIN store

DbPut(store, key, value) ==
    [k \in (DOMAIN store) \cup {key} |-> IF k = key THEN value ELSE store[k]]

DbDelete(store, key) ==
    [k \in (DOMAIN store) \ {key} |-> store[k]]

BatchOpWrite(key, value) == [op |-> "write", key |-> key, value |-> value]

BatchOpErase(key) == [op |-> "erase", key |-> key, value |-> 0]

RECURSIVE ApplyBatch(_, _)
ApplyBatch(store, batch) ==
    IF batch = <<>> THEN store
    ELSE LET o == Head(batch)
         IN ApplyBatch(IF o.op = "write" THEN DbPut(store, o.key, o.value)
                       ELSE DbDelete(store, o.key),
                       Tail(batch))

\* The engine applies a batch whole or, on a fault, not at all.
DbWriteBatch(store, batch, commitOk) ==
    IF commitOk THEN ApplyBatch(store, batch) ELSE store

\* The keys of a store in the engine's iteration order.
RECURSIVE SortKeys(_)
SortKeys(S) ==
    IF S = {} THEN <<>>
    ELSE LET m == CHOOSE x \in S : \A y \in S \ {x} : KeyLess(x, y)
         IN <<m>> \o SortKeys(S \ {m})

\* Seek: the index in keys of the first key not below target (Len + 1: the end).
SeekPos(keys, target) ==
    LET I == {i \in 1..Len(keys) : ~KeyLess(keys[i], target)}
    IN IF I = {} THEN Len(keys) + 1
       ELSE CHOOSE i \in I : \A j \in I : i <= j

\* ------------------------------------------------------------ UTXO store
TxIds == 1..MaxTx
Hashes == 0..MaxHash
\* A coins record is abstracted to the number of its outputs still unspent.
CoinsValues == 0..NOut
\* CCoinsCacheEntry::flags; BatchWrite tests the DIRTY bit only.
Flags == SUBSET {"DIRTY"}
CacheEntries == [coins : CoinsValues, flags : Flags]

CoinsKey(txid) == <<DB_COINS, txid>>

BestBlockKey == <<DB_BEST_BLOCK>>

\* Pruned: every output spent.
IsPruned(coins) == coins = 0

GetCoins(store, txid) == DbRead(store, CoinsKey(txid))

HaveCoins(store, txid) == DbExists(store, CoinsKey(txid))

GetBestBlock(store) ==
    LET r == DbRead(store, BestBlockKey)
    IN IF ~r.found THEN NullHash ELSE r.value

BatchEntryNoErase(batch, txid, entry) ==
    IF "DIRTY" \in entry.flags
    THEN Append(batch, BatchOpWrite(CoinsKey(txid), entry.coins))
    ELSE batch

\* A flush with the two branches of the pruned test exchanged.
BatchEntrySwapped(batch, txid, entry) ==
    IF "DIRTY" \in entry.flags
    THEN IF IsPruned(entry.coins)
         THEN Append(batch, BatchOpWrite(CoinsKey(txid), entry.coins))
         ELSE Append(batch, BatchOpErase(CoinsKey(txid)))
    ELSE batch

\* BatchWrite, lines 55-61: what one map entry adds to the batch.
BatchEntry(batch, txid, entry) ==
    IF "DIRTY" \in entry.flags
    THEN IF IsPruned(entry.coins)
         THEN Append(batch, BatchOpErase(CoinsKey(txid)))
         ELSE Append(batch, BatchOpWrite(CoinsKey(txid), entry.coins))
    ELSE batch

DrainEntryDirtyOnly(map, txid) ==
    IF "DIRTY" \in map[txid].flags
    THEN [t \in (DOMAIN map) \ {txid} |-> map[t]]
    ELSE map

\* BatchWrite, lines 63-64: the visited entry is erased from the caller's map.
DrainEntry(map, txid) == [t \in (DOMAIN map) \ {txid} |-> map[t]]

\* The order in which the map's iterator visits its entries.
RECURSIVE MapOrder(_)
MapOrder(S) ==
    IF S = {} THEN <<>>
    ELSE LET m == CHOOSE t \in S : \A u \in S : t <= u
         IN <<m>> \o MapOrder(S \ {m})

\* BatchWrite, lines 54-65: the loop over the caller's map.
RECURSIVE BatchWriteLoop(_, _, _)
BatchWriteLoop(map, todo, batch) ==
    IF todo = <<>> THEN [batch |-> batch, mapCoins |-> map]
    ELSE LET it == Head(todo)
         IN BatchWriteLoop(DrainEntry(map, it), Tail(todo),
                           BatchEntry(batch, it, map[it]))

BatchBestBlockAlways(batch, hashBlock) ==
    Append(batch, BatchOpWrite(BestBlockKey, hashBlock))

\* BatchWrite, lines 66-67.
BatchBestBlock(batch, hashBlock) ==
    IF hashBlock # NullHash
    THEN Append(batch, BatchOpWrite(BestBlockKey, hashBlock))
    ELSE batch

\* A BatchWrite that writes the best-block pointer on its own, before the batch.
BatchWriteResultUnbatched(store, map, hashBlock, commitOk) ==
    LET r == BatchWriteLoop(map, MapOrder(DOMAIN map), <<>>)
        s1 == IF hashBlock # NullHash
              THEN DbPut(store, BestBlockKey, hashBlock) ELSE store
    IN [db |-> DbWriteBatch(s1, r.batch, commitOk),
        mapCoins |-> r.mapCoins, ret |-> IF commitOk THEN "ok" ELSE "fail"]

\* BatchWrite, lines 50-71: the store, the caller's map and the result after it.
BatchWriteResult(store, map, hashBlock, commitOk) ==
    LET r == BatchWriteLoop(map, MapOrder(DOMAIN map), <<>>)
        batch == BatchBestBlock(r.batch, hashBlock)
    IN [db |-> DbWriteBatch(store, batch, commitOk),
        mapCoins |-> r.mapCoins, ret |-> IF commitOk THEN "ok" ELSE "fail"]

NoFlush == [op |-> "none"]

NoCursor == [state |-> "none"]

\* History only: which kinds of entry the diff of a flush held.
DiffKinds(store, map) ==
    {"erase_present" : t \in {u \in DOMAIN map :
        "DIRTY" \in map[u].flags /\ IsPruned(map[u].coins) /\ HaveCoins(store, u)}}
    \cup {"upsert_over" : t \in {u \in DOMAIN map :
        /\ "DIRTY" \in map[u].flags /\ ~IsPruned(map[u].coins)
        /\ HaveCoins(store, u) /\ GetCoins(store, u).value # map[u].coins}}
    \cup {"skip_differs" : t \in {u \in DOMAIN map :
        /\ "DIRTY" \notin map[u].flags
        /\ GetCoins(store, u) # [found |-> TRUE, value |-> map[u].coins]}}
    \cup {"untouched" : t \in {u \in TxIds \ DOMAIN map : HaveCoins(store, u)}}

\* The caller fills the diff it will flush.
FillCoinsMap(diff) ==
    /\ cursor.state = "none"
    /\ hFlush = NoFlush
    /\ DOMAIN mapCoins = {}
    /\ DOMAIN diff # {}
    /\ mapCoins' = diff
    /\ UNCHANGED <<coinsDb, coinsRet, cursor, scanned, hFlush, hBest>>

\* The caller has looked at the result of the last flush and moves on.
FlushReturned ==
    /\ hFlush # NoFlush
    /\ cursor.state = "none"
    /\ hFlush' = NoFlush
    /\ coinsRet' = "none"
    /\ UNCHANGED <<coinsDb, mapCoins, cursor, scanned, hBest>>

BatchWrite(hashBlock, commitOk) ==
    /\ cursor.state = "none"
    /\ hFlush = NoFlush
    /\ LET r == BatchWriteResult(coinsDb, mapCoins, hashBlock, commitOk)
       IN /\ coinsDb' = r.db
          /\ mapCoins' = r.mapCoins
          /\ coinsRet' = r.ret
    /\ hFlush' = [op |-> "flush", hashBlock |-> hashBlock, ok |-> commitOk,
                  kinds |-> DiffKinds(coinsDb, mapCoins)]
    /\ hBest' = IF commitOk /\ hashBlock # NullHash THEN hashBlock ELSE hBest
    /\ UNCHANGED <<cursor, scanned>>

\* ------------------------------------------------------- the UTXO cursor
ItValid(keys, pos) == pos \in 1..Len(keys)

\* CDBIterator::GetKey into a pair<char, uint256> holding old: the tag is read
\* first; a key with no 32-byte suffix fails after the tag has been stored.
ItGetKey(keys, pos, old) ==
    LET k == keys[pos]
    IN IF Len(k) = 2 THEN [ok |-> TRUE, key |-> k]
       ELSE [ok |-> FALSE, key |-> <<k[1], old[2]>>]

\* What reading the key of an iterator that is not Valid() may leave in old:
\* the engine requires Valid(), so the read is undefined.
UndefinedKeys(old) ==
    {old} \cup {<<tag, t>> : tag \in {DB_COINS, DB_BEST_BLOCK}, t \in TxIds}

Crashed == [state |-> "crashed"]

\* Cursor(), lines 96-106, without the test of the iterator before GetKey.
CursorOpenOutcomes(store) ==
    LET keys == SortKeys(DOMAIN store)
        pos == SeekPos(keys, <<DB_COINS>>)
        fresh == <<0, NullHash>>
    IN IF ItValid(keys, pos)
       THEN {[state |-> "open", pos |-> pos,
              keyTmp |-> ItGetKey(keys, pos, fresh).key,
              hashBlock |-> GetBestBlock(store)]}
       ELSE {Crashed} \cup
            {[state |-> "open", pos |-> pos, keyTmp |-> k,
              hashBlock |-> GetBestBlock(store)] : k \in UndefinedKeys(fresh)}

\* Valid(), lines 128-131.
CursorValid(c) == c.keyTmp[1] = DB_COINS

\* GetKey, lines 108-116.
CursorGetKey(c) ==
    IF c.keyTmp[1] = DB_COINS
    THEN [ok |-> TRUE, key |-> c.keyTmp[2]]
    ELSE [ok |-> FALSE, key |-> NullHash]

\* GetValue, lines 118-121: the value under the engine iterator; undefined
\* (a crash, or any record) when the iterator is not Valid().
CursorGetValueOutcomes(store, c) ==
    LET keys == SortKeys(DOMAIN store)
    IN IF ItValid(keys, c.pos)
       THEN {[crash |-> FALSE, value |-> store[keys[c.pos]]]}
       ELSE {[crash |-> TRUE, value |-> 0]}
            \cup {[crash |-> FALSE, value |-> v] : v \in CoinsValues}

\* Next(), lines 133-138.
CursorNextOutcomes(store, c) ==
    LET keys == SortKeys(DOMAIN store)
        exhausted == [c EXCEPT !.keyTmp = <<0, c.keyTmp[2]>>]
    IN IF ~ItValid(keys, c.pos) THEN {Crashed, exhausted}
       ELSE LET pos == c.pos + 1
                g == ItGetKey(keys, pos, c.keyTmp)
            IN IF ~ItValid(keys, pos) THEN {[exhausted EXCEPT !.pos = pos]}
               ELSE IF ~g.ok THEN {[c EXCEPT !.pos = pos, !.keyTmp = <<0, g.key[2]>>]}
               ELSE {[c EXCEPT !.pos = pos, !.keyTmp = g.key]}

CursorOpen ==
    /\ cursor.state = "none"
    /\ DOMAIN mapCoins = {}
    /\ cursor' \in CursorOpenOutcomes(coinsDb)
    /\ scanned' = <<>>
    /\ UNCHANGED <<coinsDb, mapCoins, coinsRet, hFlush, hBest>>

\* One round of the consumer's loop: while Valid(): GetKey, GetValue, Next.
CursorRead ==
    /\ cursor.state = "open"
    /\ CursorValid(cursor)
    /\ \E v \in CursorGetValueOutcomes(coinsDb, cursor) :
        IF v.crash
        THEN cursor' = Crashed /\ scanned' = scanned
        ELSE /\ scanned' = Append(scanned, <<CursorGetKey(cursor).key, v.value>>)
             /\ cursor' \in CursorNextOutcomes(coinsDb, cursor)
    /\ UNCHANGED <<coinsDb, mapCoins, coinsRet, hFlush, hBest>>

\* The consumer deletes the cursor.
CursorClose ==
    /\ cursor.state = "open"
    /\ cursor' = NoCursor
    /\ scanned' = <<>>
    /\ UNCHANGED <<coinsDb, mapCoins, coinsRet, hFlush, hBest>>

Diffs == UNION {[D -> CacheEntries] : D \in SUBSET TxIds}

CoinsInit ==
    /\ coinsDb = EmptyMap
    /\ mapCoins = EmptyMap
    /\ coinsRet = "none"
    /\ cursor = NoCursor
    /\ scanned = <<>>
    /\ hFlush = NoFlush
    /\ hBest = NullHash

NoTreeCall == [op |-> "none"]

FlagNames == 1..MaxName

NoFlags == [n \in FlagNames |-> [written |-> FALSE, value |-> FALSE]]

BlockInit ==
    /\ blockDb = EmptyMap
    /\ mapBlockIndex = EmptyMap
    /\ loadRet = "none"
    /\ treeCall = NoTreeCall
    /\ hFlags = NoFlags

CoinsNext ==
    /\ \/ \E diff \in Diffs : FillCoinsMap(diff)
       \/ \E h \in Hashes, ok \in BOOLEAN : BatchWrite(h, ok)
       \/ FlushReturned
       \/ CursorOpen
       \/ CursorRead
       \/ CursorClose
    /\ UNCHANGED <<blockVars, balVars>>

\* ------------------------------------------------- the block index store
BlockHashes == 1..MaxBlocks

BlockIndexKey(hash) == <<DB_BLOCK_INDEX, hash>>

\* A CDiskBlockIndex as stored: its own hash (GetBlockHash, the digest of its
\* header fields), the previous hash and the scalar fields.
DiskBlockIndexes ==
    [decodes : {TRUE}, hash : BlockHashes, hashPrev : {NullHash} \cup BlockHashes,
     nHeight : 0..MaxBlkHeight, cumulativeDifficulty : 1..(MaxBlkHeight + 1)]

\* A value that does not decode as a CDiskBlockIndex.
Undecodable == [decodes |-> FALSE]

\* arith_uint256 of a uint256: the same number.
UintToArith256(x) == x

\* new CBlockIndex(): no previous link, every scalar field zero.
NewBlockIndex == [pprev |-> {}, nHeight |-> 0, nChainDiff |-> 0]

\* The caller's insert function: the node of the hash, created empty on a miss.
\* A node is named by its hash; a link to a node is the set holding its hash.
InsertBlockIndex(index, hash) ==
    IF hash \in DOMAIN index THEN index
    ELSE [h \in (DOMAIN index) \cup {hash} |->
            IF h = hash THEN NewBlockIndex ELSE index[h]]

\* A load that links only to a previous node already in the collection.
PopulateNodeLookupOnly(index, diskindex) ==
    LET i1 == InsertBlockIndex(index, diskindex.hash)
    IN [i1 EXCEPT ![diskindex.hash] =
          [pprev |-> IF diskindex.hashPrev \in DOMAIN i1
                     THEN {diskindex.hashPrev} ELSE {},
           nHeight |-> diskindex.nHeight,
           nChainDiff |-> UintToArith256(diskindex.cumulativeDifficulty)]]

\* LoadBlockIndexGuts, lines 189-207: the node of one decoded record.
PopulateNode(index, diskindex) ==
    LET i1 == InsertBlockIndex(index, diskindex.hash)
        i2 == InsertBlockIndex(i1, diskindex.hashPrev)
    IN [i2 EXCEPT ![diskindex.hash] =
          [pprev |-> {diskindex.hashPrev},
           nHeight |-> diskindex.nHeight,
           nChainDiff |-> UintToArith256(diskindex.cumulativeDifficulty)]]

RECURSIVE LoadLoop(_, _, _, _)

\* A load that skips a record whose value does not decode.
LoadValueFailedSkip(store, keys, pos, index) ==
    LoadLoop(store, keys, pos + 1, index)

\* LoadBlockIndexGuts, lines 210-212: the value did not decode.
LoadValueFailed(store, keys, pos, index) ==
    [ret |-> "error", index |-> index]

\* LoadBlockIndexGuts, lines 182-218: the scan from the iterator's position.
LoadLoop(store, keys, pos, index) ==
    IF ~ItValid(keys, pos) THEN [ret |-> "ok", index |-> index]
    ELSE LET g == ItGetKey(keys, pos, <<0, NullHash>>)
         IN IF g.ok /\ g.key[1] = DB_BLOCK_INDEX
            THEN IF store[keys[pos]].decodes
                 THEN LoadLoop(store, keys, pos + 1,
                               PopulateNode(index, store[keys[pos]]))
                 ELSE LoadValueFailed(store, keys, pos, index)
            ELSE [ret |-> "ok", index |-> index]

\* A load that fails when a loaded node links to a node the scan did not fill.
LoadBlockIndexGutsConnected(store, index) ==
    LET keys == SortKeys(DOMAIN store)
        r == LoadLoop(store, keys, SeekPos(keys, BlockIndexKey(NullHash)), index)
    IN IF \E h \in DOMAIN r.index :
            \E p \in r.index[h].pprev : p # NullHash /\ r.index[p] = NewBlockIndex
       THEN [ret |-> "error", index |-> r.index]
       ELSE r

\* LoadBlockIndexGuts, lines 175-219.
LoadBlockIndexGutsResult(store, index) ==
    LET keys == SortKeys(DOMAIN store)
    IN LoadLoop(store, keys, SeekPos(keys, BlockIndexKey(NullHash)), index)

LoadBlockIndexGuts ==
    /\ loadRet = "none"
    /\ LET r == LoadBlockIndexGutsResult(blockDb, mapBlockIndex)
       IN /\ mapBlockIndex' = r.index
          /\ loadRet' = r.ret
    /\ UNCHANGED <<blockDb, treeCall, hFlags, coinsVars, balVars>>

\* The stored bytes of one block-index record are damaged before the load.
CorruptRecord(hash) ==
    /\ loadRet = "none"
    /\ BlockIndexKey(hash) \in DOMAIN blockDb
    /\ \A k \in DOMAIN blockDb : k[1] = DB_BLOCK_INDEX => blockDb[k].decodes
    /\ blockDb' = [blockDb EXCEPT ![BlockIndexKey(hash)] = Undecodable]
    /\ UNCHANGED <<mapBlockIndex, loadRet, treeCall, hFlags, coinsVars, balVars>>

\* Keys of other families that a block index store holds: a named flag (before
\* the block-index keys), a file info and the last-file pointer (after them).
OtherKeys == {<<DB_FLAG, 1>>, <<DB_BLOCK_FILES, 0>>, <<DB_LAST_BLOCK>>}

\* The stores an earlier run can have left: any set of block-index records,
\* each under the key of its own hash (as WriteBatchSync writes them), with or
\* without records of other families.
PersistedStores ==
    {[k \in {BlockIndexKey(h) : h \in DOMAIN recs} \cup others |->
        IF k[1] = DB_BLOCK_INDEX
        THEN [decodes |-> TRUE, hash |-> k[2], hashPrev |-> recs[k[2]].hashPrev,
              nHeight |-> recs[k[2]].nHeight,
              cumulativeDifficulty |-> recs[k[2]].nHeight + 1]
        ELSE [decodes |-> TRUE]] :
     recs \in UNION {[H -> [hashPrev : {NullHash} \cup BlockHashes,
                            nHeight : 0..MaxBlkHeight]] : H \in SUBSET BlockHashes},
     others \in {{}, OtherKeys}}

LoadNext ==
    \/ LoadBlockIndexGuts
    \/ \E h \in BlockHashes : CorruptRecord(h)

\* ------------------------------------------- block index store: flags
FlagKey(name) == <<DB_FLAG, name>>

ReindexKey == <<DB_REINDEX_FLAG>>

\* fValue ? '1' : '0', line 164.
FlagChar(fValue) == IF fValue THEN "1" ELSE "0"

\* CDBWrapper::Write of one key; putOk: whether the engine's write succeeds.
DbWrite(store, key, value, putOk) ==
    [ret |-> putOk, db |-> IF putOk THEN DbPut(store, key, value) ELSE store]

\* CDBWrapper::Erase of one key.
DbErase(store, key, eraseOk) ==
    [ret |-> eraseOk, db |-> IF eraseOk THEN DbDelete(store, key) ELSE store]

\* WriteFlag, lines 163-165.
WriteFlagResult(store, name, fValue, putOk) ==
    DbWrite(store, FlagKey(name), FlagChar(fValue), putOk)

\* A read that reports a missing flag as found with the value false.
ReadFlagCoerced(store, name, fValue) ==
    LET r == DbRead(store, FlagKey(name))
    IN [ret |-> TRUE, fValue |-> r.found /\ r.value = "1"]

\* ReadFlag, lines 167-173; fValue: the caller's variable before the call.
ReadFlagResult(store, name, fValue) ==
    LET r == DbRead(store, FlagKey(name))
    IN IF ~r.found THEN [ret |-> FALSE, fValue |-> fValue]
       ELSE [ret |-> TRUE, fValue |-> (r.value = "1")]

\* WriteReindexing, lines 80-85.
WriteReindexingResult(store, fReindexing, ok) ==
    IF fReindexing THEN DbWrite(store, ReindexKey, "1", ok)
    ELSE DbErase(store, ReindexKey, ok)

\* ReadReindexing, lines 87-90.
ReadReindexingResult(store) ==
    [ret |-> TRUE, fReindexing |-> DbExists(store, ReindexKey)]

WriteFlag(name, fValue, putOk) ==
    /\ treeCall = NoTreeCall
    /\ LET r == WriteFlagResult(blockDb, name, fValue, putOk)
       IN /\ blockDb' = r.db
          /\ treeCall' = [op |-> "write_flag", name |-> name, ret |-> r.ret]
          /\ hFlags' = IF r.ret
                       THEN [hFlags EXCEPT ![name] =
                               [written |-> TRUE, value |-> fValue]]
                       ELSE hFlags
    /\ UNCHANGED <<mapBlockIndex, loadRet, coinsVars, balVars>>

ReadFlag(name, fValue) ==
    /\ treeCall = NoTreeCall
    /\ LET r == ReadFlagResult(blockDb, name, fValue)
       IN treeCall' = [op |-> "read_flag", name |-> name, ret |-> r.ret,
                       fValue |-> r.fValue]
    /\ UNCHANGED <<blockDb, hFlags, mapBlockIndex, loadRet, coinsVars, balVars>>

WriteReindexing(fReindexing, ok) ==
    /\ treeCall = NoTreeCall
    /\ LET r == WriteReindexingResult(blockDb, fReindexing, ok)
       IN /\ blockDb' = r.db
          /\ treeCall' = [op |-> "write_reindexing", ret |-> r.ret]
    /\ UNCHANGED <<hFlags, mapBlockIndex, loadRet, coinsVars, balVars>>

ReadReindexing ==
    /\ treeCall = NoTreeCall
    /\ LET r == ReadReindexingResult(blockDb)
       IN treeCall' = [op |-> "read_reindexing", ret |-> r.ret,
                       fReindexing |-> r.fReindexing]
    /\ UNCHANGED <<blockDb, hFlags, mapBlockIndex, loadRet, coinsVars, balVars>>

\* The caller has taken the result of the last call.
TreeReturned ==
    /\ treeCall # NoTreeCall
    /\ treeCall' = NoTreeCall
    /\ UNCHANGED <<blockDb, hFlags, mapBlockIndex, loadRet, coinsVars, balVars>>

FlagsNext ==
    \/ \E n \in FlagNames, v \in BOOLEAN, ok \in BOOLEAN : WriteFlag(n, v, ok)
    \/ \E n \in FlagNames, v \in BOOLEAN : ReadFlag(n, v)
    \/ \E v \in BOOLEAN, ok \in BOOLEAN : WriteReindexing(v, ok)
    \/ ReadReindexing
    \/ TreeReturned

\* ---------------------------------- block index store: the batched flush
Files == 0..MaxFile

\* Two distinct CBlockFileInfo values.
FileInfos == {"infoA", "infoB"}

BlockFileKey(nFile) == <<DB_BLOCK_FILES, nFile>>

LastBlockKey == <<DB_LAST_BLOCK>>

\* ReadBlockFileInfo, lines 76-78.
ReadBlockFileInfo(store, nFile) == DbRead(store, BlockFileKey(nFile))

\* ReadLastBlockFile, lines 92-94.
ReadLastBlockFile(store) == DbRead(store, LastBlockKey)

\* The in-memory node of block h of the caller's chain: block 1 is the
\* genesis, block h > 1 links to block h - 1.
ChainBlock(h) ==
    [hash |-> h, pprev |-> IF h = 1 THEN {} ELSE {h - 1},
     nHeight |-> h - 1, nChainDiff |-> h]

\* CDiskBlockIndex(pindex): hashPrev is the hash of the linked node, null
\* without a link.
ToDiskBlockIndex(node) ==
    [decodes |-> TRUE, hash |-> node.hash,
     hashPrev |-> IF node.pprev = {} THEN NullHash
                  ELSE CHOOSE h \in node.pprev : TRUE,
     nHeight |-> node.nHeight, cumulativeDifficulty |-> node.nChainDiff]

\* Lines 142-144: one write per file info.
RECURSIVE BatchFileInfos(_, _)
BatchFileInfos(batch, fileInfo) ==
    IF fileInfo = <<>> THEN batch
    ELSE BatchFileInfos(
            Append(batch, BatchOpWrite(BlockFileKey(Head(fileInfo).nFile),
                                       Head(fileInfo).info)),
            Tail(fileInfo))

\* Lines 146-148: one write per block node.
RECURSIVE BatchBlockInfos(_, _)
BatchBlockInfos(batch, blockinfo) ==
    IF blockinfo = <<>> THEN batch
    ELSE BatchBlockInfos(
            Append(batch, BatchOpWrite(BlockIndexKey(Head(blockinfo).hash),
                                       ToDiskBlockIndex(Head(blockinfo)))),
            Tail(blockinfo))

\* A flush that writes the last-file pointer on its own, before the batch.
WriteBatchSyncPointerFirst(store, fileInfo, nLastFile, blockinfo, commitOk) ==
    LET b1 == BatchFileInfos(<<>>, fileInfo)
        b2 == BatchBlockInfos(b1, blockinfo)
    IN [ret |-> commitOk,
        db |-> DbWriteBatch(DbPut(store, LastBlockKey, nLastFile), b2, commitOk)]

\* WriteBatchSync, lines 140-150.
WriteBatchSyncResult(store, fileInfo, nLastFile, blockinfo, commitOk) ==
    LET b1 == BatchFileInfos(<<>>, fileInfo)
        b2 == Append(b1, BatchOpWrite(LastBlockKey, nLastFile))
        b3 == BatchBlockInfos(b2, blockinfo)
    IN [ret |-> commitOk, db |-> DbWriteBatch(store, b3, commitOk)]

\* The file-info lists handed to a flush: none, one file, or files 0 and 1.
FileInfoLists ==
    {<<>>}
    \cup {<<[nFile |-> f, info |-> i]>> : f \in Files, i \in FileInfos}
    \cup {<<[nFile |-> 0, info |-> i], [nFile |-> 1, info |-> i]>> :
            i \in FileInfos}

\* The block lists handed to a flush: none, one block, or two linked blocks.
BlockInfoLists ==
    {<<>>}
    \cup {<<ChainBlock(h)>> : h \in BlockHashes}
    \cup {<<ChainBlock(h), ChainBlock(h + 1)>> : h \in BlockHashes \ {MaxBlocks}}

WriteBatchSync(fileInfo, nLastFile, blockinfo, commitOk) ==
    /\ treeCall = NoTreeCall
    /\ LET r == WriteBatchSyncResult(blockDb, fileInfo, nLastFile, blockinfo,
                                     commitOk)
       IN /\ blockDb' = r.db
          /\ treeCall' = [op |-> "write_batch_sync", fileInfo |-> fileInfo,
                          nLastFile |-> nLastFile, blockinfo |-> blockinfo,
                          ret |-> r.ret]
    /\ UNCHANGED <<hFlags, mapBlockIndex, loadRet, coinsVars, balVars>>

BatchNext ==
    \/ \E fi \in FileInfoLists, nl \in Files, bi \in BlockInfoLists,
          ok \in BOOLEAN : WriteBatchSync(fi, nl, bi, ok)
    \/ TreeReturned

\* ------------------------------------------------------ the balance index
AddrA == <<"A">>
AddrB == <<"B">>
Addresses == {AddrA, AddrB}
Heights == 0..MaxHeight

DigitChars == <<"0", "1", "2", "3", "4", "5", "6", "7", "8", "9">>

\* operator<< of a non-negative integer: its decimal digits.
RECURSIVE DecDigits(_)
DecDigits(n) ==
    IF n < 10 THEN <<DigitChars[n + 1]>>
    ELSE DecDigits(n \div 10) \o <<DigitChars[(n % 10) + 1]>>

\* operator<< of an integer into a stringstream, read back as one word.
IntToString(n) == IF n < 0 THEN <<"-">> \o DecDigits(0 - n) ELSE DecDigits(n)

DigitValue(ch) == (CHOOSE d \in 1..10 : DigitChars[d] = ch) - 1

RECURSIVE ParseDigits(_, _)
ParseDigits(str, acc) ==
    IF str = <<>> THEN acc
    ELSE ParseDigits(Tail(str), acc * 10 + DigitValue(Head(str)))

\* operator>> of an integer from the stored string.
StringToInt(str) ==
    IF Head(str) = "-" THEN 0 - ParseDigits(Tail(str), 0)
    ELSE ParseDigits(str, 0)

\* key + "_" + strHeight, lines 252 and 271.
BalanceKey(address, nHeight) == address \o <<"_">> \o IntToString(nHeight)

\* WriteDB, lines 240-261; putOk: whether the engine's Put succeeds.
WriteDB(store, key, nHeight, value, putOk) ==
    IF putOk
    THEN [ok |-> TRUE,
          db |-> DbPut(store, BalanceKey(key, nHeight), IntToString(value))]
    ELSE [ok |-> FALSE, db |-> store]

\* ReadDB, lines 263-288; faults: the keys whose Get ends in an engine fault
\* other than not-found; value: the caller's variable before the call.
ReadDB(store, faults, key, nHeight, value) ==
    LET k == BalanceKey(key, nHeight)
    IN IF k \in faults THEN [ok |-> FALSE, value |-> value]
       ELSE IF k \notin DOMAIN store THEN [ok |-> FALSE, value |-> 0]
       ELSE [ok |-> TRUE, value |-> StringToInt(store[k])]

\* A scan that stops above height 0.
RECURSIVE ScanDownAboveZero(_, _, _, _)
ScanDownAboveZero(store, faults, address, h) ==
    IF h < 1 THEN 0
    ELSE LET r == ReadDB(store, faults, address, h, 0)
         IN IF r.ok THEN r.value
            ELSE ScanDownAboveZero(store, faults, address, h - 1)

\* GetBalance, lines 301-309: the scan of the store from h down to 0.
RECURSIVE ScanDown(_, _, _, _)
ScanDown(store, faults, address, h) ==
    IF h < 0 THEN 0
    ELSE LET r == ReadDB(store, faults, address, h, 0)
         IN IF r.ok THEN r.value
            ELSE ScanDown(store, faults, address, h - 1)

\* GetBalance, lines 295-310.
GetBalance(store, cache, faults, address, nHeight) ==
    IF address \in DOMAIN cache THEN cache[address]
    ELSE ScanDown(store, faults, address, nHeight)

\* A cache that keeps the entry an address already has.
CacheSetInsertOnly(cache, address, val) ==
    [a \in (DOMAIN cache) \cup {address} |->
        IF a \in DOMAIN cache THEN cache[a] ELSE val]

\* Lines 338-341 and 364-367: the cache entry of the address is set.
CacheSet(cache, address, val) ==
    [a \in (DOMAIN cache) \cup {address} |-> IF a = address THEN val ELSE cache[a]]

\* An update that goes on after a failed write.
SetBalanceNoAbort(st, address, nHeight, val, failAt) ==
    LET w == WriteDB(st.db, address, nHeight, val, st.writes + 1 # failAt)
    IN [db |-> w.db, cache |-> CacheSet(st.cache, address, val),
        writes |-> st.writes + 1, ok |-> TRUE]

\* Lines 338-343 and 364-369: the new amount goes to the cache, then to the
\* store; st.writes counts the WriteDB calls, the failAt-th of which fails.
SetBalance(st, address, nHeight, val, failAt) ==
    LET w == WriteDB(st.db, address, nHeight, val, st.writes + 1 # failAt)
    IN [db |-> w.db, cache |-> CacheSet(st.cache, address, val),
        writes |-> st.writes + 1, ok |-> w.ok]

\* An input debited at every height, height 0 included.
DebitInputAnyHeight(st, in, nHeight, failAt) ==
    SetBalance(st, in.address, nHeight,
               GetBalance(st.db, st.cache, {}, in.address, nHeight - 1)
                   - in.nValue,
               failAt)

\* Lines 322-344: one input of a non-coinbase transaction.
DebitInput(st, in, nHeight, failAt) ==
    IF nHeight > 0
    THEN SetBalance(st, in.address, nHeight,
                    GetBalance(st.db, st.cache, {}, in.address, nHeight - 1)
                        - in.nValue,
                    failAt)
    ELSE st

\* Lines 320-345: the loop over the inputs, left at the first failed write.
RECURSIVE DebitLoop(_, _, _, _)
DebitLoop(st, vin, nHeight, failAt) ==
    IF vin = <<>> \/ ~st.ok THEN st
    ELSE DebitLoop(DebitInput(st, Head(vin), nHeight, failAt),
                   Tail(vin), nHeight, failAt)

\* An output credited on top of the stored balance, whatever the cache holds.
CreditOutputFromStore(st, out, nHeight, failAt) ==
    IF out.nValue <= 0 THEN st
    ELSE SetBalance(st, out.address, nHeight,
                    ScanDown(st.db, {}, out.address, nHeight - 1) + out.nValue,
                    failAt)

\* Lines 350-369: one output.
CreditOutput(st, out, nHeight, failAt) ==
    IF out.nValue <= 0 THEN st
    ELSE SetBalance(st, out.address, nHeight,
                    GetBalance(st.db, st.cache, {}, out.address, nHeight - 1)
                        + out.nValue,
                    failAt)

\* Lines 348-370: the loop over the outputs, left at the first failed write.
RECURSIVE CreditLoop(_, _, _, _)
CreditLoop(st, vout, nHeight, failAt) ==
    IF vout = <<>> \/ ~st.ok THEN st
    ELSE CreditLoop(CreditOutput(st, Head(vout), nHeight, failAt),
                    Tail(vout), nHeight, failAt)

\* CTransaction::IsCoinBase: one input, with a null prevout.
IsCoinBase(tx) == Len(tx.vin) = 1 /\ tx.vin[1].prevoutNull

\* UpdateBalance, lines 312-374.
UpdateBalanceResult(store, cache, tx, nHeight, failAt) ==
    LET st0 == [db |-> store, cache |-> cache, writes |-> 0, ok |-> TRUE]
    IN IF Len(tx.vout) > 0
       THEN LET st1 == IF ~IsCoinBase(tx) /\ Len(tx.vin) > 0
                       THEN DebitLoop(st0, tx.vin, nHeight, failAt)
                       ELSE st0
            IN CreditLoop(st1, tx.vout, nHeight, failAt)
       ELSE st0

\* The transactions handed to UpdateBalance: checked transactions, with at
\* least one input and one output; a spent output is given by the owner and
\* value the UTXO view resolves it to.
NullInput == [prevoutNull |-> TRUE, address |-> <<>>, nValue |-> 0]

TxInputs ==
    {<<NullInput>>} \cup
    {<<[prevoutNull |-> FALSE, address |-> a, nValue |-> v]>> :
        a \in Addresses, v \in 1..MaxValue}

TxOutputs ==
    {<<[address |-> a, nValue |-> v]>> : a \in Addresses, v \in 0..MaxValue}

Txs == [vin : TxInputs, vout : TxOutputs]

\* The WriteDB calls an UpdateBalance of tx at nHeight makes when none fails.
WritesOf(tx, nHeight) ==
    UpdateBalanceResult(EmptyMap, EmptyMap, tx, nHeight, 0).writes

NoCall == [op |-> "none"]

\* History only: what a successful call adds to the total of an address.
Delta(tx, nHeight, a) ==
    LET credits == {i \in 1..Len(tx.vout) :
                      tx.vout[i].address = a /\ tx.vout[i].nValue > 0}
        debits == {i \in 1..Len(tx.vin) :
                      ~IsCoinBase(tx) /\ nHeight > 0 /\ tx.vin[i].address = a}
        RECURSIVE SumOut(_), SumIn(_)
        SumOut(S) == IF S = {} THEN 0
                     ELSE LET i == CHOOSE j \in S : TRUE
                          IN tx.vout[i].nValue + SumOut(S \ {i})
        SumIn(S) == IF S = {} THEN 0
                    ELSE LET i == CHOOSE j \in S : TRUE
                         IN tx.vin[i].nValue + SumIn(S \ {i})
    IN SumOut(credits) - SumIn(debits)

\* Blocks are connected at non-decreasing heights, and no further transaction
\* is applied once an update has failed.
UpdateBalance(tx, nHeight, failAt) ==
    /\ balCall = NoCall
    /\ nCalls < MaxCalls
    /\ hAllOk
    /\ nHeight >= curHeight
    /\ failAt <= WritesOf(tx, nHeight)
    /\ LET r == UpdateBalanceResult(balDb, cacheBalance, tx, nHeight, failAt)
       IN /\ balDb' = r.db
          /\ cacheBalance' = r.cache
          /\ balCall' = [op |-> "update", tx |-> tx, nHeight |-> nHeight,
                         failAt |-> failAt, ok |-> r.ok]
          /\ hAllOk' = (hAllOk /\ r.ok)
    /\ hTotal' = [a \in Addresses |-> hTotal[a] + Delta(tx, nHeight, a)]
    /\ nCalls' = nCalls + 1
    /\ curHeight' = nHeight
    /\ UNCHANGED <<coinsVars, blockVars>>

ClearCache ==
    /\ balCall = NoCall
    /\ cacheBalance' = EmptyMap
    /\ balCall' = [op |-> "clear"]
    /\ UNCHANGED <<balDb, nCalls, curHeight, hTotal, hAllOk, coinsVars, blockVars>>

\* A get_balance call; faults: the keys whose read meets an engine fault.
GetBalanceCall(address, nHeight, faults) ==
    /\ balCall = NoCall
    /\ balCall' = [op |-> "get", address |-> address, nHeight |-> nHeight,
                   faults |-> faults,
                   amount |-> GetBalance(balDb, cacheBalance, faults,
                                         address, nHeight)]
    /\ UNCHANGED <<balDb, cacheBalance, nCalls, curHeight, hTotal, hAllOk,
                   coinsVars, blockVars>>

\* The caller has taken the result of the last call.
CallReturned ==
    /\ balCall # NoCall
    /\ balCall' = NoCall
    /\ UNCHANGED <<balDb, cacheBalance, nCalls, curHeight, hTotal, hAllOk,
                   coinsVars, blockVars>>

BalInit ==
    /\ balDb = EmptyMap
    /\ cacheBalance = EmptyMap
    /\ balCall = NoCall
    /\ nCalls = 0
    /\ curHeight = 0
    /\ hTotal = [a \in Addresses |-> 0]
    /\ hAllOk = TRUE

\* The read faults of one get_balance call: none, or one on the first key the
\* scan probes.
FaultSets(address, nHeight) == {{}, {BalanceKey(address, nHeight)}}

BalNext ==
    \/ \E tx \in Txs, h \in Heights, f \in 0..2 : UpdateBalance(tx, h, f)
    \/ ClearCache
    \/ \E a \in Addresses, h \in Heights :
          \E F \in FaultSets(a, h) : GetBalanceCall(a, h, F)
    \/ CallReturned

\* --------------------------------------------------------- specifications
Init == CoinsInit /\ BlockInit /\ BalInit

\* Start-up over a store left by an earlier run.
LoadInit ==
    /\ CoinsInit
    /\ BalInit
    /\ blockDb \in PersistedStores
    /\ mapBlockIndex = EmptyMap
    /\ loadRet = "none"
    /\ treeCall = NoTreeCall
    /\ hFlags = NoFlags

Next == CoinsNext \/ LoadNext \/ FlagsNext \/ BatchNext \/ BalNext

\* All three stores, from their construction.
Spec == Init /\ [][Next]_vars

\* The UTXO store and its cursor.
SpecCoins == Init /\ [][CoinsNext]_vars

\* The block index load over a persisted store.
SpecLoad == LoadInit /\ [][LoadNext]_vars

\* The named flags and the reindex flag of the block index store.
SpecFlags == Init /\ [][FlagsNext]_vars

\* The batched flush of the block index store.
SpecBatch == Init /\ [][BatchNext]_vars

\* The balance index.
SpecBal == Init /\ [][BalNext]_vars

\* ----------------------------------------------------- UTXO store claims
\* A step that is a BatchWrite call.
FlushStep == hFlush = NoFlush /\ hFlush'.op = "flush"

FlushedOk == hFlush.op = "flush" /\ hFlush.ok

FlushedFail == hFlush.op = "flush" /\ ~hFlush.ok

Absent == [found |-> FALSE, value |-> 0]

Present(coins) == [found |-> TRUE, value |-> coins]

\* What the claim says get/exists report for txid after a committed flush.
FlushPost(t) ==
    IF t \in DOMAIN mapCoins /\ "DIRTY" \in mapCoins[t].flags
    THEN IF IsPruned(mapCoins[t].coins)
         THEN GetCoins(coinsDb', t) = Absent /\ ~HaveCoins(coinsDb', t)
         ELSE /\ GetCoins(coinsDb', t) = Present(mapCoins[t].coins)
              /\ HaveCoins(coinsDb', t)
    ELSE /\ GetCoins(coinsDb', t) = GetCoins(coinsDb, t)
         /\ HaveCoins(coinsDb', t) = HaveCoins(coinsDb, t)

\* C1: after a successful flush, a dirty pruned entry is absent from get/exists,
\* a dirty non-pruned entry reads back as the record of the diff, and a
\* non-dirty entry or a txid outside the diff reads as before the flush.
C1_FlushEffect ==
    [][(FlushStep /\ hFlush'.ok) => \A t \in TxIds : FlushPost(t)]_vars

\* C1 witness: a committed flush whose diff erased a coin that was present and
\* overwrote another one with a different record.
C1_Witness ==
    FlushedOk /\ {"erase_present", "upsert_over"} \subseteq hFlush.kinds

\* C2: get_best_block() is the hash of the most recent committed flush with a
\* non-null hash, and the zero hash when there has been none; a flush with the
\* null hash leaves it as it was.
C2_BestBlock == GetBestBlock(coinsDb) = hBest

\* C2 witness: a committed flush with the null hash after the pointer was set.
C2_Witness ==
    FlushedOk /\ hFlush.hashBlock = NullHash /\ hBest # NullHash

WantedCoin(t) ==
    /\ t \in DOMAIN mapCoins
    /\ "DIRTY" \in mapCoins[t].flags
    /\ GetCoins(coinsDb, t) #
         (IF IsPruned(mapCoins[t].coins) THEN Absent
          ELSE Present(mapCoins[t].coins))

AppliedCoin(t) == GetCoins(coinsDb', t) # GetCoins(coinsDb, t)

WantedBest ==
    hFlush'.hashBlock # NullHash /\ hFlush'.hashBlock # GetBestBlock(coinsDb)

AppliedBest == GetBestBlock(coinsDb') # GetBestBlock(coinsDb)

\* C3: a flush whose commit fails returns failure and leaves the coin records
\* and the best-block pointer as they were; and whenever a flush changes
\* anything, it has made every change it asked for, pointer and coins alike.
C3_AllOrNothing ==
    [][FlushStep =>
        /\ ~hFlush'.ok => (coinsDb' = coinsDb /\ coinsRet' = "fail")
        /\ hFlush'.ok => coinsRet' = "ok"
        /\ (AppliedBest \/ \E t \in TxIds : AppliedCoin(t)) =>
              /\ WantedBest => AppliedBest
              /\ \A t \in TxIds : WantedCoin(t) => AppliedCoin(t)]_vars

\* C3 witness: a failed flush that asked for a coin change and a new pointer.
C3_Witness ==
    /\ FlushedFail
    /\ hFlush.hashBlock # NullHash
    /\ hFlush.hashBlock # GetBestBlock(coinsDb)
    /\ hFlush.kinds \cap {"erase_present", "upsert_over"} # {}

\* C4: when flush has returned, with success or failure, the caller's diff
\* mapping is empty.
C4_DiffDrained == hFlush.op = "flush" => DOMAIN mapCoins = {}

\* C4 witness: a failed flush whose diff held a non-dirty entry.
C4_Witness == FlushedFail /\ "skip_differs" \in hFlush.kinds

PresentCoins(store) ==
    {<<t, store[CoinsKey(t)]>> : t \in {u \in TxIds : HaveCoins(store, u)}}

\* C5: a cursor opened after a committed flush and read to exhaustion has
\* yielded exactly the (txid, record) pairs get/exists report, each once.
C5_CursorComplete ==
    (FlushedOk /\ cursor.state = "open" /\ ~CursorValid(cursor)) =>
        /\ {scanned[i] : i \in 1..Len(scanned)} = PresentCoins(coinsDb)
        /\ Len(scanned) = Cardinality(PresentCoins(coinsDb))

\* The same, for a store that holds at least one coin-set record.
CursorCompleteNonEmpty ==
    (cursor.state = "open" /\ ~CursorValid(cursor) /\ PresentCoins(coinsDb) # {}) =>
        /\ {scanned[i] : i \in 1..Len(scanned)} = PresentCoins(coinsDb)
        /\ Len(scanned) = Cardinality(PresentCoins(coinsDb))

\* ----------------------------------------------- block index store claims
StoredBlocks == {h \in BlockHashes : BlockIndexKey(h) \in DOMAIN blockDb}

StoredBlock(h) == blockDb[BlockIndexKey(h)]

\* The node of h holds what the record of h stores.
Populated(h) ==
    /\ h \in DOMAIN mapBlockIndex
    /\ mapBlockIndex[h].pprev = {StoredBlock(h).hashPrev}
    /\ mapBlockIndex[h].nHeight = StoredBlock(h).nHeight
    /\ mapBlockIndex[h].nChainDiff = StoredBlock(h).cumulativeDifficulty

\* h reaches a genesis record (previous hash null) in at most n steps.
RECURSIVE ReachesGenesis(_, _)
ReachesGenesis(h, n) ==
    /\ n > 0
    /\ h \in StoredBlocks
    /\ \/ StoredBlock(h).hashPrev = NullHash
       \/ ReachesGenesis(StoredBlock(h).hashPrev, n - 1)

\* The persisted nodes form a single tree rooted at one genesis node.
IsTree ==
    /\ StoredBlocks # {}
    /\ \A h \in StoredBlocks : StoredBlock(h).decodes
    /\ Cardinality({h \in StoredBlocks : StoredBlock(h).hashPrev = NullHash}) = 1
    /\ \A h \in StoredBlocks : ReachesGenesis(h, MaxBlocks + 1)

\* C6: over a persisted tree the load succeeds, every persisted node holds the
\* stored scalar fields, and every non-genesis node's previous-link is the
\* in-memory node of its stored previous-hash, child before parent or after.
C6_TreeLinked ==
    (loadRet # "none" /\ IsTree) =>
        /\ loadRet = "ok"
        /\ \A h \in StoredBlocks :
            /\ h \in DOMAIN mapBlockIndex
            /\ mapBlockIndex[h].nHeight = StoredBlock(h).nHeight
            /\ mapBlockIndex[h].nChainDiff = StoredBlock(h).cumulativeDifficulty
            /\ StoredBlock(h).hashPrev # NullHash =>
                /\ mapBlockIndex[h].pprev = {StoredBlock(h).hashPrev}
                /\ StoredBlock(h).hashPrev \in DOMAIN mapBlockIndex
                /\ Populated(StoredBlock(h).hashPrev)

\* C6 witness: a loaded tree with one child enumerated before its parent and
\* another one after it.
C6_Witness ==
    /\ loadRet = "ok"
    /\ IsTree
    /\ \E c \in StoredBlocks : StoredBlock(c).hashPrev > c
    /\ \E c \in StoredBlocks :
        StoredBlock(c).hashPrev # NullHash /\ StoredBlock(c).hashPrev < c

BadBlocks == {h \in StoredBlocks : ~StoredBlock(h).decodes}

\* C7: a block-index value that fails to decode makes the load return failure
\* at that record: the records before it are loaded, the record itself and
\* every record after it in key order are not.
C7_DecodeFailureAborts ==
    (loadRet # "none" /\ BadBlocks # {}) =>
        /\ loadRet = "error"
        /\ \A b \in BadBlocks, h \in StoredBlocks :
            /\ h < b => Populated(h)
            /\ h >= b => (h \notin DOMAIN mapBlockIndex
                          \/ mapBlockIndex[h] = NewBlockIndex)

\* C7 witness: a failed load over a store with a record before the damaged one
\* and a record after it.
C7_Witness ==
    /\ loadRet = "error"
    /\ \E b \in BadBlocks : \E h1, h2 \in StoredBlocks : h1 < b /\ b < h2

\* ------------------------------------------------- balance index claims
\* The heights up to H at which the store holds a record of the address.
RecordedHeights(store, a, H) ==
    {h \in 0..H : BalanceKey(a, h) \in DOMAIN store}

\* The amount of the record (a, h).
RecordedAmount(store, a, h) == StringToInt(store[BalanceKey(a, h)])

Largest(S) == CHOOSE h \in S : \A g \in S : g <= h

\* The amount recorded at the largest recorded height up to H, 0 if none.
AmountAsOf(store, a, H) ==
    IF RecordedHeights(store, a, H) = {} THEN 0
    ELSE RecordedAmount(store, a, Largest(RecordedHeights(store, a, H)))

CleanGet ==
    balCall.op = "get" /\ cacheBalance = EmptyMap /\ balCall.faults = {}

\* C8: with an empty cache and no read fault, get_balance(address, H) returns
\* the amount recorded at the largest recorded height h with 0 <= h <= H, and 0
\* when the address has no record at any such height.
C8_ScanLookup ==
    CleanGet =>
        balCall.amount = AmountAsOf(balDb, balCall.address, balCall.nHeight)

\* C8 witness: a lookup that passes a height without a record and returns the
\* non-zero amount of a lower one, while another address has no record at all.
C8_Witness ==
    /\ CleanGet
    /\ balCall.amount # 0
    /\ BalanceKey(balCall.address, balCall.nHeight) \notin DOMAIN balDb
    /\ \E b \in Addresses : RecordedHeights(balDb, b, MaxHeight) = {}

\* A step that is a successful update_balance call of a transaction spending
\* an output of a at height h > 0 and paying the same value to b # a.
TransferStep(a, b, h) ==
    /\ balCall = NoCall
    /\ balCall'.op = "update"
    /\ balCall'.ok
    /\ balCall'.nHeight = h
    /\ h > 0
    /\ a # b
    /\ ~IsCoinBase(balCall'.tx)
    /\ balCall'.tx.vin[1].address = a
    /\ balCall'.tx.vout[1].address = b
    /\ balCall'.tx.vout[1].nValue = balCall'.tx.vin[1].nValue

\* The record (a, h) of the store after the step holds val, and get_balance
\* after the step returns val.
PersistedAndVisible(a, h, val) ==
    /\ BalanceKey(a, h) \in DOMAIN balDb'
    /\ RecordedAmount(balDb', a, h) = val
    /\ GetBalance(balDb', cacheBalance', {}, a, h) = val

C10_TotalBalance ==
    hAllOk =>
        \A a \in Addresses :
            RecordedHeights(balDb, a, MaxHeight) # {} =>
                AmountAsOf(balDb, a, MaxHeight) = hTotal[a]

\* C11: after successful update_balance calls, get_balance(address, H) for any
\* height H returns the amount recorded at the largest recorded height <= H
\* (0 if none), never a balance established at a height above H.
C11_HistoricalQuery ==
    (balCall.op = "get" /\ balCall.faults = {} /\ hAllOk) =>
        balCall.amount = AmountAsOf(balDb, balCall.address, balCall.nHeight)

\* ------------------------------------------------------ flag claims
\* C12: read_flag(name) reports not-found as long as no write_flag(name, ...)
\* has succeeded, and found with the value of the last successful write
\* afterwards, for true and for false; writes of other names and of the reindex
\* flag do not change it.
C12_FlagTriState ==
    treeCall.op = "read_flag" =>
        /\ treeCall.ret = hFlags[treeCall.name].written
        /\ treeCall.ret => treeCall.fValue = hFlags[treeCall.name].value

\* C12 witness: a flag read as found with the value false while another name
\* holds true.
C12_Witness ==
    /\ treeCall.op = "read_flag"
    /\ treeCall.ret
    /\ ~treeCall.fValue
    /\ \E n \in FlagNames \ {treeCall.name} :
         hFlags[n].written /\ hFlags[n].value

\* ------------------------------------------------ batched flush claims
\* A step that is a write_batch_sync call.
SyncStep == treeCall = NoTreeCall /\ treeCall'.op = "write_batch_sync"

\* Every upsert of the call reads back from the store after the step: the file
\* infos, the last-file pointer, and the block nodes through the load scan.
SyncAllReadable ==
    LET fi == treeCall'.fileInfo
        bi == treeCall'.blockinfo
        scan == LoadBlockIndexGutsResult(blockDb', EmptyMap)
    IN /\ \A i \in 1..Len(fi) :
            ReadBlockFileInfo(blockDb', fi[i].nFile)
                = [found |-> TRUE, value |-> fi[i].info]
       /\ ReadLastBlockFile(blockDb')
            = [found |-> TRUE, value |-> treeCall'.nLastFile]
       /\ scan.ret = "ok"
       /\ \A i \in 1..Len(bi) :
            /\ bi[i].hash \in DOMAIN scan.index
            /\ scan.index[bi[i].hash].nHeight = bi[i].nHeight
            /\ scan.index[bi[i].hash].nChainDiff = bi[i].nChainDiff
            /\ scan.index[bi[i].hash].pprev
                 = {ToDiskBlockIndex(bi[i]).hashPrev}

\* C13: write_batch_sync applies the file infos, the last-file pointer and the
\* block nodes as one batch: after success all of them are readable, after
\* failure the store is as before the call, so the pointer is never updated
\* without the file infos and block nodes of the same call.
C13_SyncAtomic ==
    [][SyncStep =>
         /\ treeCall'.ret => SyncAllReadable
         /\ ~treeCall'.ret => blockDb' = blockDb]_vars

\* C13 witness: a failed call with two file infos and two block nodes that
\* would have changed the pointer, after an earlier call had succeeded.
C13_Witness ==
    /\ treeCall.op = "write_batch_sync"
    /\ ~treeCall.ret
    /\ Len(treeCall.fileInfo) = 2
    /\ Len(treeCall.blockinfo) = 2
    /\ ReadLastBlockFile(blockDb).found
    /\ ReadLastBlockFile(blockDb).value # treeCall.nLastFile
    /\ BlockIndexKey(treeCall.blockinfo[1].hash) \notin DOMAIN blockDb

\* ------------------------------------------- balance failure claims
\* The addresses an update_balance of tx at height h sets, in the order of the
\* call: the input's owner, then the owner of the output.
SetOrder(tx, h) ==
    (IF ~IsCoinBase(tx) /\ h > 0 THEN <<tx.vin[1].address>> ELSE <<>>)
    \o (IF tx.vout[1].nValue > 0 THEN <<tx.vout[1].address>> ELSE <<>>)

\* A step that is an update_balance call one of whose writes fails.
FailedUpdateStep ==
    balCall = NoCall /\ balCall'.op = "update" /\ balCall'.failAt # 0

SameRecord(key) ==
    /\ (key \in DOMAIN balDb') = (key \in DOMAIN balDb)
    /\ key \in DOMAIN balDb => balDb'[key] = balDb[key]

SameCached(a) ==
    /\ (a \in DOMAIN cacheBalance') = (a \in DOMAIN cacheBalance)
    /\ a \in DOMAIN cacheBalance => cacheBalance'[a] = cacheBalance[a]

\* C14: when a write fails inside update_balance, the call returns failure at
\* that point: nothing at or after the failing write reaches the store, no
\* address after the failing one reaches the cache, and the record and the
\* cache entry of an address set earlier in the call are kept.
C14_FailureAborts ==
    [][FailedUpdateStep =>
         LET h == balCall'.nHeight
             order == SetOrder(balCall'.tx, h)
             k == balCall'.failAt
             earlier == {order[i] : i \in 1..(k - 1)}
             upTo == {order[i] : i \in 1..k}
         IN /\ ~balCall'.ok
            /\ \A key \in (DOMAIN balDb \cup DOMAIN balDb')
                          \ {BalanceKey(a, h) : a \in earlier} :
                 SameRecord(key)
            /\ \A a \in Addresses \ upTo : SameCached(a)
            /\ \A a \in earlier :
                 /\ BalanceKey(a, h) \in DOMAIN balDb'
                 /\ RecordedAmount(balDb', a, h)
                      = GetBalance(balDb, cacheBalance, {}, a, h - 1)
                          - balCall'.tx.vin[1].nValue
                 /\ a \in DOMAIN cacheBalance'
                 /\ a # order[k] =>
                      cacheBalance'[a] = RecordedAmount(balDb', a, h)]_vars

\* C14 witness: the write of the output fails after the input of another
\* address, which had a record at the height below, was debited.
C14_Witness ==
    /\ balCall.op = "update"
    /\ balCall.failAt = 2
    /\ ~balCall.ok
    /\ balCall.tx.vin[1].address # balCall.tx.vout[1].address
    /\ BalanceKey(balCall.tx.vin[1].address, balCall.nHeight) \in DOMAIN balDb
    /\ BalanceKey(balCall.tx.vout[1].address, balCall.nHeight)
         \notin DOMAIN balDb
    /\ BalanceKey(balCall.tx.vin[1].address, balCall.nHeight - 1)
         \in DOMAIN balDb

\* C15: a get_balance lookup that misses the cache and meets a read fault other
\* than not-found returns a zero amount, not the amount of another height.
C15_FaultGivesZero ==
    (/\ balCall.op = "get"
     /\ balCall.address \notin DOMAIN cacheBalance
     /\ balCall.faults # {}) =>
        balCall.amount = 0

\* ------------------------------------------------------ cursor claims
\* The engine cursor under the UTXO cursor is on a coin-set-tagged key.
OnCoinKey ==
    LET keys == SortKeys(DOMAIN coinsDb)
    IN ItValid(keys, cursor.pos) /\ keys[cursor.pos][1] = DB_COINS

\* C16: from the moment Cursor() returns and after each Next(), Valid() is true
\* exactly when the engine cursor is on a coin-set-tagged key, and GetKey then
\* returns the txid of that key; a cursor opened on a store with no coin-set
\* record is exhausted at once.
C16_ValidIffOnCoinKey ==
    /\ cursor.state # "crashed"
    /\ cursor.state = "open" =>
         /\ CursorValid(cursor) = OnCoinKey
         /\ CursorValid(cursor) =>
              CursorGetKey(cursor)
                = [ok |-> TRUE,
                   key |-> SortKeys(DOMAIN coinsDb)[cursor.pos][2]]

\* The same for a cursor over a store that holds a coin-set record.
ValidIffOnCoinKeyNonEmpty ==
    (cursor.state = "open" /\ PresentCoins(coinsDb) # {}) =>
         /\ CursorValid(cursor) = OnCoinKey
         /\ CursorValid(cursor) =>
              CursorGetKey(cursor)
                = [ok |-> TRUE,
                   key |-> SortKeys(DOMAIN coinsDb)[cursor.pos][2]]

\* ------------------------------------------------- balance debit claims
\* A step that is a successful update_balance call.
UpdateOkStep == balCall = NoCall /\ balCall'.op = "update" /\ balCall'.ok

\* What get_balance(a, h - 1) returns when the call is made.
BalanceBefore(a, h) == GetBalance(balDb, cacheBalance, {}, a, h - 1)

\* The value the transaction pays to a, counting outputs above zero only.
CreditOf(tx, a) ==
    IF tx.vout[1].address = a /\ tx.vout[1].nValue > 0
    THEN tx.vout[1].nValue ELSE 0

\* The value of the outputs of a that the transaction spends.
SpentOf(tx, a) ==
    IF ~IsCoinBase(tx) /\ tx.vin[1].address = a THEN tx.vin[1].nValue ELSE 0

\* After the step the record (a, h) and the cache entry of a hold val.
SetTo(a, h, val) ==
    /\ BalanceKey(a, h) \in DOMAIN balDb'
    /\ RecordedAmount(balDb', a, h) = val
    /\ a \in DOMAIN cacheBalance'
    /\ cacheBalance'[a] = val

\* The step debits the inputs of a transaction at the heights in debitHeights
\* and at no other height, credits its output, and touches no other address.
DebitsAt(debitHeights) ==
    LET tx == balCall'.tx
        h == balCall'.nHeight
    IN \A a \in Addresses :
         LET d == IF h \in debitHeights THEN SpentOf(tx, a) ELSE 0
         IN IF d > 0 \/ CreditOf(tx, a) > 0
            THEN SetTo(a, h, BalanceBefore(a, h) - d + CreditOf(tx, a))
            ELSE SameRecord(BalanceKey(a, h)) /\ SameCached(a)

\* C17 as stated: a successful update_balance of a non-coinbase transaction at
\* any height >= 0, height 0 included, debits every input, persisting
\* balance_before(address, height-1) - spent_value at (address, height) and in
\* the cache; a coinbase transaction debits no address.
C17_DebitAtAnyHeight == [][UpdateOkStep => DebitsAt(Heights)]_vars

\* C17 amended: the inputs of a non-coinbase transaction are debited at every
\* height above 0; at height 0 no input is debited and only the output is
\* credited; a coinbase transaction debits no address.
C17_DebitAboveZero == [][UpdateOkStep => DebitsAt(Heights \ {0})]_vars

\* C17 witness: a non-coinbase transaction at a height above 0 whose sender
\* had no earlier record: the sender is recorded at minus the spent value.
C17_Witness ==
    /\ balCall.op = "update"
    /\ balCall.ok
    /\ ~IsCoinBase(balCall.tx)
    /\ balCall.nHeight > 0
    /\ balCall.tx.vin[1].address # balCall.tx.vout[1].address
    /\ RecordedHeights(balDb, balCall.tx.vin[1].address, MaxHeight)
         = {balCall.nHeight}
    /\ RecordedAmount(balDb, balCall.tx.vin[1].address, balCall.nHeight)
         = 0 - balCall.tx.vin[1].nValue
    /\ cacheBalance[balCall.tx.vin[1].address] = 0 - balCall.tx.vin[1].nValue

\* ------------------------------------------------ cache coherence claims
\* Every cached address maps to the amount persisted at its largest recorded
\* height.
CacheCoherent ==
    \A a \in DOMAIN cacheBalance :
        /\ RecordedHeights(balDb, a, MaxHeight) # {}
        /\ cacheBalance[a] = AmountAsOf(balDb, a, MaxHeight)

\* A step that is a clear_cache call.
ClearStep == balCall = NoCall /\ balCall'.op = "clear"

\* get_balance at or above the largest recorded height of an address answers
\* the same before and after the step.
SameAnswers ==
    \A a \in Addresses, H \in Heights :
        (\A h \in RecordedHeights(balDb, a, MaxHeight) : h <= H) =>
            GetBalance(balDb, cacheBalance, {}, a, H)
                = GetBalance(balDb', cacheBalance', {}, a, H)

\* C18: after successful update_balance calls at non-decreasing heights, with
\* clear_cache and get_balance calls in between and no engine fault, every
\* cached address maps to the amount persisted at its largest recorded height,
\* so get_balance at or above that height returns the same amount right before
\* and right after clear_cache.
C18_CacheCoherence ==
    /\ [](hAllOk => CacheCoherent)
    /\ [][(hAllOk /\ ClearStep) => SameAnswers]_vars

\* C18 witness: the cache has just been cleared while an address had records
\* of different amounts at two heights.
C18_Witness ==
    /\ hAllOk
    /\ balCall.op = "clear"
    /\ \E a \in Addresses :
         /\ Cardinality(RecordedHeights(balDb, a, MaxHeight)) > 1
         /\ AmountAsOf(balDb, a, 0) # AmountAsOf(balDb, a, MaxHeight)

\* ------------------------------------------- block index linking claims
\* The persisted nodes whose previous-hash is not null and names no persisted
\* block-index record.
DanglingBlocks ==
    {h \in StoredBlocks : /\ StoredBlock(h).decodes
                          /\ StoredBlock(h).hashPrev # NullHash
                          /\ StoredBlock(h).hashPrev \notin StoredBlocks}

\* C19: the load does not validate connectivity: over records that all decode
\* it returns success also when a node's previous-hash names no persisted
\* record, that node's previous-link is then the node insert made for the hash,
\* which the scan has not populated; and the scan ends with success at the
\* first key of another family, so only block-index records make nodes.
C19_SinglePassNoValidation ==
    (loadRet # "none" /\ BadBlocks = {}) =>
        /\ loadRet = "ok"
        /\ \A h \in StoredBlocks : Populated(h)
        /\ \A h \in DanglingBlocks :
             /\ StoredBlock(h).hashPrev \in DOMAIN mapBlockIndex
             /\ mapBlockIndex[StoredBlock(h).hashPrev] = NewBlockIndex
        /\ DOMAIN mapBlockIndex
             = StoredBlocks \cup {StoredBlock(h).hashPrev : h \in StoredBlocks}

\* C19 witness: a successful load over a store that holds records of other
\* families, a node with a dangling previous-hash and a node linked to a
\* persisted one.
C19_Witness ==
    /\ loadRet = "ok"
    /\ OtherKeys \subseteq DOMAIN blockDb
    /\ DanglingBlocks # {}
    /\ \E h \in StoredBlocks : StoredBlock(h).hashPrev \in StoredBlocks

\* ------------------------------------------------ pruned record claims
\* C20: whatever flushes have been made, committed or failed, the store holds
\* no coin-set record that is pruned: a pruned record is deleted, never stored.
C20_NoPrunedStored ==
    \A t \in TxIds :
        HaveCoins(coinsDb, t) => ~IsPruned(GetCoins(coinsDb, t).value)

\* C20 witness: a committed flush whose diff held a dirty pruned entry for a
\* coin that was present and has erased it, another coin staying in the store.
C20_Witness ==
    /\ FlushedOk
    /\ "erase_present" \in hFlush.kinds
    /\ PresentCoins(coinsDb) # {}
    /\ Cardinality(PresentCoins(coinsDb)) < MaxTx

====
